---- MODULE Spec2Model ----
(***************************************************************************)
(* A model of main.go: the process start-up (main), the background         *)
(* refresher goroutine (the loop of main and fetchPropertiesFromSanity),   *)
(* the package-level slice `properties`, and the two HTTP handlers         *)
(* GetProperties and GetPropertyBySlug.                                    *)
(*                                                                         *)
(* `properties` is a Go slice: a header of several machine words (the data *)
(* pointer and the length are the ones the handlers read; the capacity is  *)
(* read by no handler and is left out).  The refresher                     *)
(* assigns it and the handlers read it with no synchronisation, so the     *)
(* assignment of line 180 is modelled as one store per word, in either     *)
(* order, and a handler may run between the two stores.                    *)
(*                                                                         *)
(* Two views of the same code.  The list view (Spec, FairSpec) represents  *)
(* a backing array by its contents.  The memory view (HeapSpec) gives each *)
(* backing array an address on a heap, follows append element by element   *)
(* and lets a handler hold the header it has read while the refresher      *)
(* runs: it is there to check that an array is never written once a        *)
(* header that points to it has been published.                            *)
(***************************************************************************)
EXTENDS Integers, Sequences, FiniteSets, TLC

\* Longest `result` array the upstream returns in the model.
MaxLen == 2

(***************************************************************************)
(* Domain model.  A Property is abstracted to its _id and its slug.current *)
(* (the only field a handler inspects); the other fields are carried       *)
(* through verbatim by the code and are left out.                          *)
(***************************************************************************)
ZeroProperty == [id |-> "", slug |-> ""]

\* Two documents that share a slug (uniqueness of the slug is not enforced).
Props ==
  { [id |-> "p1", slug |-> "a"],
    [id |-> "p2", slug |-> "a"] }

\* The elements the upstream may put in the `result` array: a document of the
\* Property shape, a JSON null, a document with a field of the wrong JSON type.
Entries ==
  { [kind |-> "object", val |-> p] : p \in Props }
    \cup { [kind |-> "null", val |-> ZeroProperty],
           [kind |-> "mistyped", val |-> ZeroProperty] }

\* json.Unmarshal(propertyBytes, &property): an object of the Property shape
\* fills the struct; a JSON null is a no-op and leaves the zero Property, with
\* no error; a field of the wrong type is an error.
UnmarshalProperty(e) ==
  CASE e.kind = "object"   -> [err |-> FALSE, property |-> e.val]
    [] e.kind = "null"     -> [err |-> FALSE, property |-> ZeroProperty]
    [] e.kind = "mistyped" -> [err |-> TRUE, property |-> ZeroProperty]

RECURSIVE SeqsUpTo(_, _)
SeqsUpTo(S, n) ==
  IF n = 0 THEN { <<>> }
  ELSE LET shorter == SeqsUpTo(S, n - 1)
       IN  shorter \cup { Append(s, x) : s \in shorter, x \in S }

ResultArrays == SeqsUpTo(Entries, MaxLen)

\* What one upstream call can come back with, named by the first check of
\* fetchPropertiesFromSanity that it fails (or "ok" when it reaches the loop).
FailureKinds == { "transport_error", "non200", "read_error", "bad_json" }
NoResultKinds == { "result_absent", "result_not_array" }

Responses ==
  { [kind |-> k, result |-> <<>>] : k \in FailureKinds \cup NoResultKinds }
    \cup { [kind |-> "ok", result |-> r] : r \in ResultArrays }

NoResponse == [kind |-> "none", result |-> <<>>]

(***************************************************************************)
(* Slices.  A pointer is nil or designates a backing array, which is       *)
(* written only before it is published and is represented by its contents. *)
(***************************************************************************)
NilPtr == [nil |-> TRUE, arr |-> <<>>]

\* var properties []Property: the nil slice.
NilSlice == [ptr |-> NilPtr, len |-> 0]

\* The slice built by []Property{} and append: a non-nil pointer, also when
\* it holds no element.
MakeSlice(s) == [ptr |-> [nil |-> FALSE, arr |-> s], len |-> Len(s)]

\* The words of a slice header that the handlers read.
Words == { "ptr", "len" }

InBounds(h) == h.len <= Len(h.ptr.arr)

\* The environment of the process: whether godotenv.Load finds its file, the
\* value of SANITY_API_URL, whether the listen address can be bound.
Environments ==
  [ dotenv : BOOLEAN, SANITY_API_URL : { "", "https://cms/query?query=" },
    portFree : BOOLEAN ]

\* The {slug} path parameter of a request: a slug in use, and one that is not.
SlugParams == { "a", "x" }

VARIABLES
  env,            \* the environment the process was started in
  mainPc,         \* where the main goroutine is
  exitCause,      \* why the process exited ("" while it runs)
  rpc,            \* where the refresher goroutine is
  resp,           \* the upstream response of the current or latest cycle
  newProperties,  \* fetchPropertiesFromSanity's local slice
  stored,         \* the words of `properties` that line 180 has stored so far
  properties,     \* the package-level slice header
  oldProperties,  \* history: `properties` when the current or latest cycle began
  sameUpstream,   \* history: the current response equals the previous cycle's
  logs,           \* the refresher's log lines since the current cycle began
  response        \* the reply written by the latest step (NoRequest when that
                  \* step was not a handler's)

\* The memory view of lines 169-198, in which a backing array is an object
\* on the heap with an address (used by the specification HeapSpec, which
\* checks that a published array is never written).
VARIABLES
  heap,              \* the backing arrays, by address (length = capacity)
  propertiesHdr,     \* `properties`: address word and length word
  newPropertiesHdr,  \* the local newProperties: address and length
  bpc,               \* where the refresher is in lines 169-181
  resultArray,       \* propertiesData: the `result` array being decoded
  next,              \* the position in resultArray of the next element
  wordsStored,       \* the words of `properties` stored by line 180 so far
  reader             \* the header a handler has read and is still using

memVars ==
  << heap, propertiesHdr, newPropertiesHdr, bpc, resultArray, next,
     wordsStored, reader >>

vars ==
  << env, mainPc, exitCause, rpc, resp, newProperties, stored, properties,
     oldProperties, sameUpstream, logs, response, memVars >>

mainVars == << mainPc, exitCause >>
refresherVars ==
  << rpc, resp, newProperties, stored, properties, oldProperties,
     sameUpstream, logs >>

NoRequest == [op |-> "none", slug |-> "", status |-> 0, kind |-> "none",
              text |-> "", items |-> <<>>]

\* Addresses: the nil pointer, the heap arrays, and the address that every
\* zero-size allocation (such as []Property{}) yields.
Nil == 0
NumAddrs == 4
Addrs == 1..NumAddrs
ZeroBase == NumAddrs + 1

NilHdr == [ptr |-> Nil, len |-> 0]
NoReader == [active |-> FALSE, ptr |-> Nil, len |-> 0]

MemInit ==
  /\ heap = [a \in Addrs |-> << >>]
  /\ propertiesHdr = NilHdr
  /\ newPropertiesHdr = NilHdr
  /\ bpc = "idle"
  /\ resultArray = << >>
  /\ next = 1
  /\ wordsStored = {}
  /\ reader = NoReader

Init ==
  /\ env \in Environments
  /\ mainPc = "loadenv"
  /\ exitCause = ""
  /\ rpc = "notstarted"
  /\ resp = NoResponse
  /\ newProperties = NilSlice
  /\ stored = {}
  /\ properties = NilSlice
  /\ oldProperties = NilSlice
  /\ sameUpstream = FALSE
  /\ logs = <<>>
  /\ response = NoRequest
  /\ MemInit

Alive == mainPc # "exited"

(***************************************************************************)
(* main                                                                    *)
(***************************************************************************)
\* log.Fatal: os.Exit(1), which ends every goroutine.
Fatal(cause) ==
  /\ mainPc' = "exited"
  /\ exitCause' = cause

\* Lines 77-80.
LoadEnv ==
  /\ mainPc = "loadenv"
  /\ IF env.dotenv
       THEN mainPc' = "getenv" /\ UNCHANGED exitCause
       ELSE Fatal("Error loading .env file")
  /\ UNCHANGED << env, refresherVars >>
  /\ response' = NoRequest
  /\ UNCHANGED memVars

\* Mutant of CheckSanityAPI: the check of line 84 is missing.
CheckSanityAPIUnchecked ==
  /\ mainPc = "getenv"
  /\ mainPc' = "spawn"
  /\ UNCHANGED << env, exitCause, refresherVars >>
  /\ response' = NoRequest
  /\ UNCHANGED memVars

\* Lines 83-103.
CheckSanityAPI ==
  /\ mainPc = "getenv"
  /\ IF env.SANITY_API_URL = ""
       THEN Fatal("SANITY_API_URL is not set in the environment")
       ELSE mainPc' = "spawn" /\ UNCHANGED exitCause
  /\ UNCHANGED << env, refresherVars >>
  /\ response' = NoRequest
  /\ UNCHANGED memVars

\* Line 106: the go statement.
SpawnRefresher ==
  /\ mainPc = "spawn"
  /\ mainPc' = "listen"
  /\ rpc' = "start"
  /\ UNCHANGED << env, exitCause, resp, newProperties, stored, properties,
                  oldProperties, sameUpstream, logs >>
  /\ response' = NoRequest
  /\ UNCHANGED memVars

\* Lines 125-130: http.ListenAndServe binds the socket and serves, or returns
\* an error, which log.Fatal turns into an exit.
ListenAndServe ==
  /\ mainPc = "listen"
  /\ IF env.portFree
       THEN mainPc' = "serving" /\ UNCHANGED exitCause
       ELSE Fatal("listen failed")
  /\ UNCHANGED << env, refresherVars >>
  /\ response' = NoRequest
  /\ UNCHANGED memVars

MainStep == LoadEnv \/ CheckSanityAPI \/ SpawnRefresher \/ ListenAndServe

(***************************************************************************)
(* The refresher: the goroutine of lines 106-118 and                       *)
(* fetchPropertiesFromSanity.                                              *)
(***************************************************************************)
StartLog == "Starting property fetch from Sanity..."
UnmarshalLog == "Failed to unmarshal property"
UpdatedLog == "Properties successfully updated from Sanity."
NoResultLog == "No properties found in Sanity API response."

FailureLog(kind) ==
  CASE kind = "transport_error" -> "Failed to fetch properties from Sanity"
    [] kind = "non200"          -> "Sanity API returned non-200 status"
    [] kind = "read_error"      -> "Failed to read Sanity API response"
    [] kind = "bad_json"        -> "Failed to parse JSON from Sanity API"

\* Lines 113-114, logged when fetchPropertiesFromSanity has returned.
CycleEndLogs ==
  << "Property fetch completed", "Next update will occur in 1 hour." >>

\* Mutant of DecodeLoop: a decode failure ends the loop (break for continue).
RECURSIVE DecodeLoopBreaking(_, _, _)
DecodeLoopBreaking(propertiesData, i, acc) ==
  IF i > Len(propertiesData) THEN acc
  ELSE LET u == UnmarshalProperty(propertiesData[i])
       IN  IF u.err
             THEN [acc EXCEPT !.logged = Append(@, UnmarshalLog)]
             ELSE DecodeLoopBreaking(propertiesData, i + 1,
                    [acc EXCEPT !.list = Append(@, u.property)])

\* Lines 170-179: newProperties starts empty; each element is decoded on its
\* own; a failure is logged and the element skipped.  `acc` holds the list
\* built and the lines logged so far.
RECURSIVE DecodeLoop(_, _, _)
DecodeLoop(propertiesData, i, acc) ==
  IF i > Len(propertiesData) THEN acc
  ELSE LET u == UnmarshalProperty(propertiesData[i])
       IN  IF u.err
             THEN DecodeLoop(propertiesData, i + 1,
                    [acc EXCEPT !.logged = Append(@, UnmarshalLog)])
             ELSE DecodeLoop(propertiesData, i + 1,
                    [acc EXCEPT !.list = Append(@, u.property)])

\* Line 170 and the loop after it.
DecodeResult(propertiesData) ==
  DecodeLoop(propertiesData, 1, [list |-> <<>>, logged |-> <<>>])

\* Lines 107-111 and 116: the loop starts a cycle when the goroutine starts
\* and each time time.Sleep returns; http.Get is then in flight.
StartCycle ==
  /\ Alive
  /\ rpc \in { "start", "sleeping" }
  /\ rpc' = "fetching"
  /\ logs' = << StartLog >>
  /\ oldProperties' = properties
  /\ UNCHANGED << env, mainVars, resp, newProperties, stored, properties,
                  sameUpstream >>
  /\ response' = NoRequest
  /\ UNCHANGED memVars

\* Mutant of FetchFails: a failed call clears the list.
FetchFailsClearing ==
  /\ Alive
  /\ rpc = "fetching"
  /\ \E r \in Responses :
       /\ r.kind \in FailureKinds
       /\ resp' = r
       /\ sameUpstream' = (r = resp)
       /\ logs' = logs \o << FailureLog(r.kind) >> \o CycleEndLogs
  /\ rpc' = "sleeping"
  /\ properties' = NilSlice
  /\ UNCHANGED << env, mainVars, newProperties, stored, oldProperties >>
  /\ response' = NoRequest
  /\ UNCHANGED memVars

\* Mutant of FetchFails: the goroutine returns after a failed call.
FetchFailsStopping ==
  /\ Alive
  /\ rpc = "fetching"
  /\ \E r \in Responses :
       /\ r.kind \in FailureKinds
       /\ resp' = r
       /\ sameUpstream' = (r = resp)
       /\ logs' = logs \o << FailureLog(r.kind) >>
  /\ rpc' = "stopped"
  /\ UNCHANGED << env, mainVars, newProperties, stored, properties,
                  oldProperties >>
  /\ response' = NoRequest
  /\ UNCHANGED memVars

\* Lines 145-167: the call fails at the transport, the status, the body or
\* the top-level JSON; the function logs and returns, and the loop sleeps.
FetchFails ==
  /\ Alive
  /\ rpc = "fetching"
  /\ \E r \in Responses :
       /\ r.kind \in FailureKinds
       /\ resp' = r
       /\ sameUpstream' = (r = resp)
       /\ logs' = logs \o << FailureLog(r.kind) >> \o CycleEndLogs
  /\ rpc' = "sleeping"
  /\ UNCHANGED << env, mainVars, newProperties, stored, properties,
                  oldProperties >>
  /\ response' = NoRequest
  /\ UNCHANGED memVars

\* Mutant of FetchNoResult: the assignment of line 180 is placed after the
\* if statement, so the empty newProperties is installed.
FetchNoResultClearing ==
  /\ Alive
  /\ rpc = "fetching"
  /\ \E r \in Responses :
       /\ r.kind \in NoResultKinds
       /\ resp' = r
       /\ sameUpstream' = (r = resp)
       /\ logs' = logs \o << NoResultLog >> \o CycleEndLogs
  /\ rpc' = "sleeping"
  /\ properties' = MakeSlice(<<>>)
  /\ UNCHANGED << env, mainVars, newProperties, stored, oldProperties >>
  /\ response' = NoRequest
  /\ UNCHANGED memVars

\* Lines 169 and 182-184: the body is JSON but result["result"] is not a
\* []interface{}.
FetchNoResult ==
  /\ Alive
  /\ rpc = "fetching"
  /\ \E r \in Responses :
       /\ r.kind \in NoResultKinds
       /\ resp' = r
       /\ sameUpstream' = (r = resp)
       /\ logs' = logs \o << NoResultLog >> \o CycleEndLogs
  /\ rpc' = "sleeping"
  /\ UNCHANGED << env, mainVars, newProperties, stored, properties,
                  oldProperties >>
  /\ response' = NoRequest
  /\ UNCHANGED memVars

\* Mutant of FetchDecodes: the decoded elements are appended to the current
\* list (newProperties := properties for newProperties := []Property{}).
FetchDecodesMerging ==
  /\ Alive
  /\ rpc = "fetching"
  /\ \E r \in Responses :
       /\ r.kind = "ok"
       /\ resp' = r
       /\ sameUpstream' = (r = resp)
       /\ LET d == DecodeResult(r.result)
          IN  /\ newProperties' =
                   MakeSlice(SubSeq(properties.ptr.arr, 1, properties.len)
                               \o d.list)
              /\ logs' = logs \o d.logged
  /\ rpc' = "assign"
  /\ stored' = {}
  /\ UNCHANGED << env, mainVars, properties, oldProperties >>
  /\ response' = NoRequest
  /\ UNCHANGED memVars

\* Mutant of FetchDecodes: one element that fails to decode discards the
\* whole result (the new list stays empty).
FetchDecodesAllOrNothing ==
  /\ Alive
  /\ rpc = "fetching"
  /\ \E r \in Responses :
       /\ r.kind = "ok"
       /\ resp' = r
       /\ sameUpstream' = (r = resp)
       /\ LET d == DecodeResult(r.result)
          IN  /\ newProperties' =
                   MakeSlice(IF d.logged = << >> THEN d.list ELSE << >>)
              /\ logs' = logs \o d.logged
  /\ rpc' = "assign"
  /\ stored' = {}
  /\ UNCHANGED << env, mainVars, properties, oldProperties >>
  /\ response' = NoRequest
  /\ UNCHANGED memVars

\* Lines 169-179: the result is an array; the new list is built in the local
\* newProperties, and the assignment of line 180 is about to run.
FetchDecodes ==
  /\ Alive
  /\ rpc = "fetching"
  /\ \E r \in Responses :
       /\ r.kind = "ok"
       /\ resp' = r
       /\ sameUpstream' = (r = resp)
       /\ LET d == DecodeResult(r.result)
          IN  /\ newProperties' = MakeSlice(d.list)
              /\ logs' = logs \o d.logged
  /\ rpc' = "assign"
  /\ stored' = {}
  /\ UNCHANGED << env, mainVars, properties, oldProperties >>
  /\ response' = NoRequest
  /\ UNCHANGED memVars

\* Line 180, properties = newProperties: one store per word of the header,
\* in an order the compiler chooses.  After the last one, lines 181 and
\* 113-116.
StoreWord ==
  /\ Alive
  /\ rpc = "assign"
  /\ \E w \in Words \ stored :
       /\ properties' = [properties EXCEPT ![w] = newProperties[w]]
       /\ IF stored \cup {w} = Words
            THEN /\ rpc' = "sleeping"
                 /\ stored' = {}
                 /\ newProperties' = NilSlice
                 /\ logs' = logs \o << UpdatedLog >> \o CycleEndLogs
            ELSE /\ stored' = stored \cup {w}
                 /\ UNCHANGED << rpc, newProperties, logs >>
  /\ UNCHANGED << env, mainVars, resp, oldProperties, sameUpstream >>
  /\ response' = NoRequest
  /\ UNCHANGED memVars

RefresherStep ==
  StartCycle \/ FetchFails \/ FetchNoResult \/ FetchDecodes \/ StoreWord

(***************************************************************************)
(* The HTTP handlers.  A handler reads the header of `properties` once.    *)
(* The header read may be one that the refresher has half written.         *)
(***************************************************************************)
Reply(op, slug, status, kind, text, items) ==
  [op |-> op, slug |-> slug, status |-> status, kind |-> kind,
   text |-> text, items |-> items]

\* json.NewEncoder(w).Encode of a []Property: a slice whose pointer is nil is
\* written as null, any other as the array of its elements.
EncodeSlice(h) ==
  IF h.ptr.nil THEN [kind |-> "null", items |-> <<>>]
  ELSE [kind |-> "array", items |-> SubSeq(h.ptr.arr, 1, h.len)]

\* Lines 135-136 on the header h: the replies the handler can give.  A length
\* beyond the backing array makes the encoder read the memory after it: the
\* reply holds whatever is there, or the read faults outside the heap, which
\* ends the process.
GetPropertiesReplies(h) ==
  IF h.ptr.nil \/ InBounds(h)
    THEN { Reply("list", "", 200, EncodeSlice(h).kind, "",
                 EncodeSlice(h).items) }
    ELSE { Reply("list", "", 200, "garbage", "", <<>>),
           Reply("list", "", 0, "fault", "", <<>>) }

\* Lines 190-196: the index of the first element among the first n of arr
\* whose slug is the parameter, 0 when there is none.
RECURSIVE FirstMatch(_, _, _, _)
FirstMatch(arr, n, slug, i) ==
  IF i > n THEN 0
  ELSE IF arr[i].slug = slug THEN i
  ELSE FirstMatch(arr, n, slug, i + 1)

Min(a, b) == IF a < b THEN a ELSE b

NotFound(slug) == Reply("slug", slug, 404, "text", "Property not found", <<>>)

\* Lines 189-197 on the header h: the replies the handler can give.  A nil
\* pointer with a non-zero length is a nil dereference at the first element:
\* a panic, which net/http recovers by dropping the connection.  A length
\* beyond the backing array makes the scan go on into the memory after it,
\* which does not match, matches, or faults.
GetPropertyBySlugReplies(h, slug) ==
  LET m == FirstMatch(h.ptr.arr, Min(h.len, Len(h.ptr.arr)), slug, 1)
  IN  IF m > 0
        THEN { Reply("slug", slug, 200, "object", "", << h.ptr.arr[m] >>) }
      ELSE IF InBounds(h) THEN { NotFound(slug) }
      ELSE IF h.ptr.nil THEN { Reply("slug", slug, 0, "panic", "", <<>>) }
      ELSE { NotFound(slug),
             Reply("slug", slug, 200, "garbage", "", <<>>),
             Reply("slug", slug, 0, "fault", "", <<>>) }

\* A reply is written, or the read faulted and the runtime ended the process.
Respond(r) ==
  /\ response' = r
  /\ IF r.kind = "fault"
       THEN Fatal("unexpected fault address")
       ELSE UNCHANGED mainVars

\* Mutant of GetProperties: a nil list is replaced by an empty one before it
\* is encoded.
GetPropertiesInitialising ==
  /\ mainPc = "serving"
  /\ LET h == IF properties.ptr.nil THEN MakeSlice(<< >>) ELSE properties
     IN  /\ properties' = h
         /\ \E r \in GetPropertiesReplies(h) : Respond(r)
  /\ UNCHANGED << env, rpc, resp, newProperties, stored, oldProperties,
                  sameUpstream, logs >>
  /\ UNCHANGED memVars

\* Lines 134-137.
GetProperties ==
  /\ mainPc = "serving"
  /\ \E r \in GetPropertiesReplies(properties) : Respond(r)
  /\ UNCHANGED << env, refresherVars >>
  /\ UNCHANGED memVars

\* Mutant of GetPropertyBySlug: the handler takes a lock that the refresher
\* holds while it assigns.
GetPropertyBySlugLocked ==
  /\ mainPc = "serving"
  /\ rpc # "assign"
  /\ \E slug \in SlugParams :
       \E r \in GetPropertyBySlugReplies(properties, slug) : Respond(r)
  /\ UNCHANGED << env, refresherVars >>
  /\ UNCHANGED memVars

\* Lines 188-198.
GetPropertyBySlug ==
  /\ mainPc = "serving"
  /\ \E slug \in SlugParams :
       \E r \in GetPropertyBySlugReplies(properties, slug) : Respond(r)
  /\ UNCHANGED << env, refresherVars >>
  /\ UNCHANGED memVars

HandlerStep == GetProperties \/ GetPropertyBySlug

Next == MainStep \/ RefresherStep \/ HandlerStep

Spec == Init /\ [][Next]_vars

\* The scheduler runs every goroutine that can run, time.Sleep returns, and
\* each upstream call returns.
FairSpec ==
  /\ Spec
  /\ WF_vars(MainStep)
  /\ WF_vars(StartCycle)
  /\ WF_vars(FetchFails \/ FetchNoResult \/ FetchDecodes)
  /\ WF_vars(StoreWord)

(***************************************************************************)
(* The memory view.  Lines 169-181 and the handlers again, with backing    *)
(* arrays as heap objects: append writes an array in place when it has     *)
(* room and moves to a larger one when it has not, and a handler works on  *)
(* the header it read while the refresher goes on.                         *)
(***************************************************************************)
\* The array at an address; nil and the zero-size address hold no element.
MemOf(h, a) == IF a \in Addrs THEN h[a] ELSE << >>
Mem(a) == MemOf(heap, a)

\* What keeps an array alive: the package variable, the local of
\* fetchPropertiesFromSanity, the header copied by a handler.
Roots(p, n, r) == { p.ptr, n.ptr } \cup (IF r.active THEN { r.ptr } ELSE {})

\* The garbage collector: an array that nothing refers to is freed.
Collect(h, roots) == [a \in Addrs |-> IF a \in roots THEN h[a] ELSE << >>]

\* The allocator hands out memory that nothing refers to.
Alloc(roots) ==
  CHOOSE a \in Addrs \ roots : \A b \in Addrs \ roots : a <= b

\* The capacity append moves to when the array is full.
GrowCap(cap) == IF cap = 0 THEN 1 ELSE 2 * cap

\* append(hdr, x) on the heap h: the new heap and the new header.
AppendSlice(h, hdr, x, roots) ==
  LET arr == MemOf(h, hdr.ptr)
  IN  IF hdr.len < Len(arr)
        THEN [heap |-> [h EXCEPT ![hdr.ptr][hdr.len + 1] = x],
              hdr |-> [hdr EXCEPT !.len = @ + 1]]
        ELSE LET a == Alloc(roots)
                 grown == [i \in 1..GrowCap(Len(arr)) |->
                             IF i <= hdr.len THEN arr[i]
                             ELSE IF i = hdr.len + 1 THEN x
                             ELSE ZeroProperty]
             IN  [heap |-> [h EXCEPT ![a] = grown],
                  hdr |-> [ptr |-> a, len |-> hdr.len + 1]]

\* The result arrays of the memory view: documents, and elements that fail
\* to decode.
BuildArrays ==
  SeqsUpTo({ e \in Entries : e.kind # "null" }, MaxLen)

\* The variables of the list view, which the memory view does not use.
listVars ==
  << env, rpc, resp, newProperties, stored, properties, oldProperties,
     sameUpstream, logs >>

\* Mutant of BuildStart: the new list reuses the backing array of the
\* installed one (newProperties := properties[:0]).
BuildStartReusing ==
  /\ Alive
  /\ bpc = "idle"
  /\ \E r \in BuildArrays : resultArray' = r
  /\ next' = 1
  /\ newPropertiesHdr' = [ptr |-> propertiesHdr.ptr, len |-> 0]
  /\ bpc' = "loop"
  /\ heap' = Collect(heap, Roots(propertiesHdr, newPropertiesHdr', reader))
  /\ response' = NoRequest
  /\ UNCHANGED << listVars, mainVars, propertiesHdr, wordsStored, reader >>

\* Lines 169-170: the response carries a result array; newProperties is the
\* empty slice.
BuildStart ==
  /\ Alive
  /\ bpc = "idle"
  /\ \E r \in BuildArrays : resultArray' = r
  /\ next' = 1
  /\ newPropertiesHdr' = [ptr |-> ZeroBase, len |-> 0]
  /\ bpc' = "loop"
  /\ heap' = Collect(heap, Roots(propertiesHdr, newPropertiesHdr', reader))
  /\ response' = NoRequest
  /\ UNCHANGED << listVars, mainVars, propertiesHdr, wordsStored, reader >>

\* Lines 171-179, one iteration: the element is decoded and appended, or
\* the decoding fails and the element is skipped.
BuildNext ==
  /\ Alive
  /\ bpc = "loop"
  /\ next <= Len(resultArray)
  /\ next' = next + 1
  /\ LET u == UnmarshalProperty(resultArray[next])
         grown == AppendSlice(heap, newPropertiesHdr, u.property,
                              Roots(propertiesHdr, newPropertiesHdr, reader))
     IN  IF u.err
           THEN UNCHANGED << heap, newPropertiesHdr >>
           ELSE /\ newPropertiesHdr' = grown.hdr
                /\ heap' = Collect(grown.heap,
                                   Roots(propertiesHdr, grown.hdr, reader))
  /\ response' = NoRequest
  /\ UNCHANGED << listVars, mainVars, propertiesHdr, bpc, resultArray,
                  wordsStored, reader >>

\* Line 180, when the loop of line 171 has ended: one word at a time; after
\* the last one the function returns and its local is dead.
AssignWord ==
  /\ Alive
  /\ bpc = "loop"
  /\ next > Len(resultArray)
  /\ \E w \in Words \ wordsStored :
       /\ propertiesHdr' = [propertiesHdr EXCEPT ![w] = newPropertiesHdr[w]]
       /\ IF wordsStored \cup { w } = Words
            THEN /\ bpc' = "idle"
                 /\ wordsStored' = {}
                 /\ newPropertiesHdr' = NilHdr
                 /\ resultArray' = << >>
                 /\ next' = 1
            ELSE /\ wordsStored' = wordsStored \cup { w }
                 /\ UNCHANGED << bpc, newPropertiesHdr, resultArray, next >>
  /\ heap' = Collect(heap, Roots(propertiesHdr', newPropertiesHdr', reader))
  /\ response' = NoRequest
  /\ UNCHANGED << listVars, mainVars, reader >>

\* Lines 136 and 190: a handler evaluates `properties` once, and from then
\* on works on its copy of the header.
ReadHeader ==
  /\ mainPc = "serving"
  /\ ~reader.active
  /\ reader' = [active |-> TRUE, ptr |-> propertiesHdr.ptr,
                len |-> propertiesHdr.len]
  /\ response' = NoRequest
  /\ UNCHANGED << listVars, mainVars, heap, propertiesHdr, newPropertiesHdr,
                  bpc, resultArray, next, wordsStored >>

\* The header a handler holds, as the list view sees it: the array is the
\* one in memory when the handler reads the elements.
AsSlice(r) == [ptr |-> [nil |-> r.ptr = Nil, arr |-> Mem(r.ptr)], len |-> r.len]

\* Lines 135-136, on the header read before.
ServeList ==
  /\ mainPc = "serving"
  /\ reader.active
  /\ \E r \in GetPropertiesReplies(AsSlice(reader)) : Respond(r)
  /\ reader' = NoReader
  /\ heap' = Collect(heap, Roots(propertiesHdr, newPropertiesHdr, reader'))
  /\ UNCHANGED << listVars, propertiesHdr, newPropertiesHdr, bpc,
                  resultArray, next, wordsStored >>

\* Lines 189-197, on the header read before.
ServeSlug ==
  /\ mainPc = "serving"
  /\ reader.active
  /\ \E slug \in SlugParams :
       \E r \in GetPropertyBySlugReplies(AsSlice(reader), slug) : Respond(r)
  /\ reader' = NoReader
  /\ heap' = Collect(heap, Roots(propertiesHdr, newPropertiesHdr, reader'))
  /\ UNCHANGED << listVars, propertiesHdr, newPropertiesHdr, bpc,
                  resultArray, next, wordsStored >>

HeapNext ==
  \/ BuildStart \/ BuildNext \/ AssignWord
  \/ ReadHeader \/ ServeList \/ ServeSlug

\* The server is serving and the refresher has been started.
HeapInit ==
  /\ env = [dotenv |-> TRUE, SANITY_API_URL |-> "https://cms/query?query=",
            portFree |-> TRUE]
  /\ mainPc = "serving"
  /\ exitCause = ""
  /\ rpc = "start"
  /\ resp = NoResponse
  /\ newProperties = NilSlice
  /\ stored = {}
  /\ properties = NilSlice
  /\ oldProperties = NilSlice
  /\ sameUpstream = FALSE
  /\ logs = <<>>
  /\ response = NoRequest
  /\ MemInit

HeapSpec == HeapInit /\ [][HeapNext]_vars

(***************************************************************************)
(* Properties.                                                             *)
(***************************************************************************)
\* The snapshot before and after the refresh in progress: while line 180 is
\* storing, the list the cycle began with and the list it has built;
\* otherwise the list in place.
PreSnapshot == IF rpc = "assign" THEN oldProperties ELSE properties
PostSnapshot == IF rpc = "assign" THEN newProperties ELSE properties

Items(h) == SubSeq(h.ptr.arr, 1, h.len)
Elements(h) == { h.ptr.arr[i] : i \in 1..h.len }
Contains(h, slug) == \E p \in Elements(h) : p.slug = slug

\* An element of the result array that json.Unmarshal rejects.  (A JSON null
\* is not rejected: it decodes to the zero Property.)
Malformed(e) == e.kind = "mistyped"
WellFormed(e) == ~Malformed(e)
IsUnmarshalLog(l) == l = UnmarshalLog

\* The well-formed elements of a result array, decoded, in upstream order.
WellFormedOf(result) ==
  LET ok == SelectSeq(result, WellFormed)
  IN  [i \in 1..Len(ok) |-> IF ok[i].kind = "null" THEN ZeroProperty
                            ELSE ok[i].val]

\* No cycle has completed an assignment of `properties` yet.
NoInstallCompleted ==
  IF rpc = "assign" THEN oldProperties.ptr.nil ELSE properties.ptr.nil

\* C1: every read (list or by slug) observes the snapshot before the refresh
\* in progress in its entirety or the snapshot after it in its entirety (the
\* initial empty snapshot or a list one cycle installed), never a partial
\* list or a mix of two.
C1_ReadObservesOneSnapshot ==
  [][ /\ GetProperties =>
           /\ response'.status = 200
           /\ response'.kind \in { "null", "array" }
           /\ response'.items \in { Items(PreSnapshot), Items(PostSnapshot) }
      /\ GetPropertyBySlug =>
           response' \in GetPropertyBySlugReplies(PreSnapshot, response'.slug)
                           \cup GetPropertyBySlugReplies(PostSnapshot,
                                                         response'.slug)
    ]_vars

\* C2: after a cycle that failed at the upstream call (transport, status,
\* body read, top-level JSON), the snapshot is the one the cycle began with:
\* same entries, same order.
C2_FailedCycleKeepsSnapshot ==
  (rpc = "sleeping" /\ resp.kind \in FailureKinds)
    => properties = oldProperties

C2_Witness ==
  /\ rpc = "sleeping"
  /\ resp.kind \in FailureKinds
  /\ properties.len = 2
  /\ properties = oldProperties

\* C3: after a cycle whose response is JSON with `result` absent or not an
\* array, the snapshot is the one the cycle began with; it is not cleared.
C3_NoResultKeepsSnapshot ==
  (rpc = "sleeping" /\ resp.kind \in NoResultKinds)
    => properties = oldProperties

C3_Witness ==
  /\ rpc = "sleeping"
  /\ resp.kind \in NoResultKinds
  /\ properties.len > 0
  /\ ~properties.ptr.nil

\* C4: after a cycle whose result array holds N well-formed and M malformed
\* elements, the cycle has run to its end, it has logged M decode failures,
\* and the snapshot is exactly the N well-formed elements in upstream order,
\* with nothing of the previous snapshot.
C4_PartialDecodeInstallsWellFormed ==
  (rpc = "sleeping" /\ resp.kind = "ok")
    => /\ properties = MakeSlice(WellFormedOf(resp.result))
       /\ Len(SelectSeq(logs, IsUnmarshalLog))
            = Len(SelectSeq(resp.result, Malformed))
       /\ logs[Len(logs) - 2] = UpdatedLog

C4_Witness ==
  /\ rpc = "sleeping"
  /\ resp.kind = "ok"
  /\ Len(SelectSeq(resp.result, Malformed)) = 1
  /\ properties.len = 1
  /\ oldProperties.len > 0
  /\ Elements(oldProperties) \cap Elements(properties) = {}

\* C5: whenever the snapshot is empty (before any cycle has installed a list,
\* or after a cycle installed a list of no entries) GET /properties replies
\* with status 200 and a serialized empty JSON array.
C5_EmptySnapshotIsEmptyArray ==
  [][ (GetProperties /\ properties.len = 0)
        => /\ response'.status = 200
           /\ response'.kind = "array"
           /\ response'.items = <<>> ]_vars

\* C6: GET /properties/{slug} replies 200 with a Property of that slug when
\* the snapshot (the one before or the one after a refresh in progress)
\* contains one, and replies 404 `Property not found` exactly when it
\* contains none.
C6_SlugHitOrMiss ==
  [][ GetPropertyBySlug =>
        LET r == response'
            before == Contains(PreSnapshot, r.slug)
            after == Contains(PostSnapshot, r.slug)
        IN  /\ (before /\ after)
                 => /\ r.status = 200
                    /\ r.kind = "object"
                    /\ r.items[1].slug = r.slug
            /\ (~before /\ ~after) => r = NotFound(r.slug)
            /\ (r.status = 404) => (~before \/ ~after)
            /\ r.status \in { 200, 404 } ]_vars

\* C7: when SANITY_API_URL is missing or empty the process never binds the
\* listening socket and the refresher never starts or fetches; once main is
\* past the check of line 84 the process has exited.
C7_MissingConfigExitsBeforeServing ==
  (env.SANITY_API_URL = "")
    => /\ mainPc \in { "loadenv", "getenv", "exited" }
       /\ rpc = "notstarted"
       /\ resp = NoResponse
       /\ logs = <<>>

C7_Witness ==
  /\ env.SANITY_API_URL = ""
  /\ env.dotenv
  /\ mainPc = "exited"
  /\ exitCause = "SANITY_API_URL is not set in the environment"

\* C8: until the first cycle that installs a list has completed, every list
\* read returns no properties and every slug lookup is a miss (404), also
\* while the first fetch is in flight or after the first cycle failed.
C8_EmptyUntilFirstInstall ==
  [][ (NoInstallCompleted /\ HandlerStep)
        => /\ response'.op = "list"
                => /\ response'.status = 200
                   /\ response'.kind \in { "null", "array" }
                   /\ response'.items = <<>>
           /\ response'.op = "slug"
                => response' = NotFound(response'.slug) ]_vars

\* C9: when a cycle receives the same upstream response as the cycle before
\* it, the snapshot after it is the snapshot after the cycle before it (same
\* entries, same order), whatever the snapshot held earlier.
C9_RefreshIdempotent ==
  (rpc = "sleeping" /\ sameUpstream) => properties = oldProperties

C9_Witness ==
  /\ rpc = "sleeping"
  /\ sameUpstream
  /\ resp.kind = "ok"
  /\ properties.len = 2
  /\ properties = oldProperties

C11_ReadsNeverWait ==
  (mainPc = "serving")
    => /\ ENABLED GetProperties
       /\ ENABLED GetPropertyBySlug

\* A list read has been answered while line 180 is storing.
C11_Witness ==
  /\ mainPc = "serving"
  /\ rpc = "assign"
  /\ stored # {}
  /\ response.op = "list"
  /\ response.status = 200

\* The failures of main at startup, each a log.Fatal before a request is
\* served: the .env file, the upstream URL, the listener.
StartupFailures ==
  { "Error loading .env file",
    "SANITY_API_URL is not set in the environment",
    "listen failed" }

\* C12: the process ends only by a startup failure of main: no step of the
\* refresher (whatever the outcome of its cycle) and no request on the
\* serving path (hit, miss or list) ends it.
C12_ExitsOnlyAtStartup ==
  ~Alive => exitCause \in StartupFailures

\* The positions in the list h of the entries whose slug is the parameter.
MatchIndexes(h, slug) == { i \in 1..h.len : h.ptr.arr[i].slug = slug }

SeveralShare(h, slug) == Cardinality(MatchIndexes(h, slug)) >= 2

\* The answer that the list h calls for: its first entry in order with that
\* slug, or 404 when it has none.
FirstInOrder(h, slug) ==
  IF MatchIndexes(h, slug) = {} THEN NotFound(slug)
  ELSE LET first == CHOOSE i \in MatchIndexes(h, slug) :
                      \A j \in MatchIndexes(h, slug) : i <= j
       IN  Reply("slug", slug, 200, "object", "", << h.ptr.arr[first] >>)

\* C14: when several entries of the current snapshot (the list in place, or
\* while line 180 is storing the list that was in place before) share the
\* requested slug, the lookup answers with the one of them that comes first
\* in snapshot order and with no other; if the refresh in progress has
\* replaced the snapshot, with what the new list calls for.
C14_FirstInOrderWins ==
  [][ ( GetPropertyBySlug /\ SeveralShare(PreSnapshot, response'.slug) )
        => response' \in { FirstInOrder(PreSnapshot, response'.slug),
                           FirstInOrder(PostSnapshot, response'.slug) }
    ]_vars

\* C15: no request changes the snapshot store: a step of GetProperties or of
\* GetPropertyBySlug, hit or miss, leaves `properties` as it was (pointer and
\* length, hence the same entries in the same order), and every change of
\* `properties` is a step of the refresher.
C15_OnlyRefresherWrites ==
  [][ /\ HandlerStep => properties' = properties
      /\ properties' # properties => RefresherStep
    ]_vars

\* A lookup has missed on a snapshot of two entries.
C15_Witness ==
  /\ response = NotFound("x")
  /\ rpc = "sleeping"
  /\ properties.len = 2
  /\ InBounds(properties)

\* The list installed by the most recent cycle that installed one, outside
\* the assignment of line 180: the list decoded by the cycle that has just
\* ended if it reached line 180, otherwise the list in place when the
\* current or last cycle started.
LastInstalled ==
  IF rpc = "sleeping" /\ resp.kind = "ok"
    THEN MakeSlice(WellFormedOf(resp.result))
    ELSE oldProperties

\* C16: cycles do not overlap (the refresher is at one position, and a fetch
\* is in flight only there), so at every instant the snapshot is the list
\* installed by the most recent cycle that installed one: while a cycle is
\* installing, the entries of the list before it or of its own, in order;
\* at every other instant, including while the next fetch is in flight, the
\* last list installed.
C16_SnapshotIsLatestInstall ==
  IF rpc = "assign"
    THEN /\ InBounds(properties)
         /\ Items(properties) \in { Items(oldProperties),
                                    Items(newProperties) }
    ELSE properties = LastInstalled

\* C17: the length of the snapshot goes from positive to zero only by the
\* assignment of line 180 in a cycle whose response carried a result array
\* of which no element decoded (an empty array, or every element rejected);
\* no failed cycle, no cycle without a result array and no request does it.
C17_EmptiedOnlyByEmptyResult ==
  [][ ( properties.len > 0 /\ properties'.len = 0 )
        => /\ StoreWord
           /\ resp.kind = "ok"
           /\ WellFormedOf(resp.result) = << >>
    ]_vars

\* A snapshot of two entries has been replaced by the empty list of a cycle
\* whose result array held only rejected elements.
C17_Witness ==
  /\ rpc = "sleeping"
  /\ resp.kind = "ok"
  /\ Len(resp.result) > 0
  /\ oldProperties.len = 2
  /\ properties = MakeSlice(<< >>)

\* The list that a header designates in memory.
ListAt(h, hdr) == SubSeq(MemOf(h, hdr.ptr), 1, hdr.len)

\* C13: `properties` is written only by line 180, after the loop has visited
\* every element, with the words of the local list, which then holds the
\* whole decoded result and was built in an array other than the installed
\* one; the array that `properties` points to is never written; and the
\* array whose header a handler holds keeps its entries, in order, until
\* the handler has answered, whatever the refresher does meanwhile.
C13_PublishedArrayNeverWritten ==
  [][ /\ propertiesHdr' # propertiesHdr
           => /\ bpc = "loop"
              /\ next > Len(resultArray)
              /\ ListAt(heap, newPropertiesHdr) = WellFormedOf(resultArray)
              /\ \E w \in Words :
                   propertiesHdr' =
                     [propertiesHdr EXCEPT ![w] = newPropertiesHdr[w]]
      /\ (bpc' = "loop" /\ wordsStored' = {} /\ newPropertiesHdr'.ptr \in Addrs)
           => newPropertiesHdr'.ptr # propertiesHdr'.ptr
      /\ propertiesHdr'.ptr = propertiesHdr.ptr
           => MemOf(heap', propertiesHdr.ptr) = Mem(propertiesHdr.ptr)
      /\ (reader.active /\ reader'.active)
           => /\ reader' = reader
              /\ MemOf(heap', reader.ptr) = Mem(reader.ptr)
    ]_vars

\* A handler still holds the header of a list of two entries that a refresh
\* has since replaced by another list.
C13_Witness ==
  /\ reader.active
  /\ reader.len = 2
  /\ Len(Mem(reader.ptr)) = 2
  /\ bpc = "idle"
  /\ propertiesHdr.ptr # reader.ptr
  /\ propertiesHdr.len > 0
  /\ Mem(propertiesHdr.ptr) # Mem(reader.ptr)

====
